---- MODULE Spec2Model ----
(***************************************************************************)
(* House price prediction pages (app.py and test.py): the widgets, the     *)
(* feature encoding, the memoized load of the model artifact and the       *)
(* per-request Predict flow, for several sessions served by one process.   *)
(***************************************************************************)
EXTENDS Integers, Sequences, FiniteSets, TLC

VARIABLES
    page,          \* which script the process serves: "app" or "test"
    file,          \* what Housing.pkl is on disk right now
    cache,         \* the st.cache_resource entry of load_model()
    lock,          \* holder of the entry's compute lock (0: free)
    heap,          \* the objects joblib.load has created, by id
    svc,           \* Unloaded / Loading / Ready / Failed
    pc,            \* each session's position in main()
    model,         \* each session's local `model`
    inp,           \* each session's widget values and button flag
    out,           \* what each session's run did and displayed
    reqs,          \* script runs started so far
    nLoad,         \* runs of load_model()'s body so far
    nPredict,      \* calls of a loaded model's predict so far
    notFoundSeen,  \* load_model() has handled FileNotFoundError
    hist,          \* <<features, vector>> of every vector built so far
    encIn,         \* encoder check: the features
    encBy,         \* encoder check: which page's encoding ran
    encOut,        \* encoder check: the vector it built
    eqIn,          \* page comparison: model, features, button flag
    eqApp,         \* page comparison: what app.py's flow did
    eqTest         \* page comparison: what test.py's flow did

mainVars == <<page, file, cache, lock, heap, svc, pc, model, inp, out, reqs,
              nLoad, nPredict, notFoundSeen, hist>>
encVars == <<encIn, encBy, encOut>>
eqVars == <<eqIn, eqApp, eqTest>>
vars == <<mainVars, encVars, eqVars>>

(***************************************************************************)
(* Bounds of the model.                                                    *)
(***************************************************************************)
NumSessions == 2
MaxRequests == 3

Sessions == 1..NumSessions

(***************************************************************************)
(* The widgets: domains and default selections.                            *)
(***************************************************************************)
AreaMin == 1000
AreaMax == 20000
AreaDefault == 7000
AreaStep == 100

BedroomOptions == <<1, 2, 3, 4, 5, 6, 7, 8>>
BathroomOptions == <<1, 2, 3, 4, 5, 6>>
StoriesOptions == <<1, 2, 3, 4>>
ParkingOptions == <<0, 1, 2, 3>>
YesNoOptions == <<"No", "Yes">>
FurnishingOptions == <<"unfurnished", "semi-furnished", "furnished">>

BedroomsIndex == 3
BathroomsIndex == 2
StoriesIndex == 2
ParkingIndex == 2
YesNoIndex == 1
FurnishingIndex == 2

\* st.selectbox(options, index=i) with nothing chosen yet: options[i], 0-based
SelectDefault(options, index) == options[index + 1]

Range(seq) == {seq[i] : i \in DOMAIN seq}

\* the values st.number_input can hold that the checks enumerate: both edges,
\* one step inside each edge, and the default
Areas == {AreaMin, AreaMin + AreaStep, AreaDefault, AreaMax - AreaStep, AreaMax}

HouseFeatures(areas) ==
    [area : areas,
     bedrooms : Range(BedroomOptions),
     bathrooms : Range(BathroomOptions),
     stories : Range(StoriesOptions),
     mainroad : Range(YesNoOptions),
     guestroom : Range(YesNoOptions),
     basement : Range(YesNoOptions),
     hotwaterheating : Range(YesNoOptions),
     airconditioning : Range(YesNoOptions),
     parking : Range(ParkingOptions),
     prefarea : Range(YesNoOptions),
     furnishingstatus : Range(FurnishingOptions)]

WidgetDefaults ==
    [area |-> AreaDefault,
     bedrooms |-> SelectDefault(BedroomOptions, BedroomsIndex),
     bathrooms |-> SelectDefault(BathroomOptions, BathroomsIndex),
     stories |-> SelectDefault(StoriesOptions, StoriesIndex),
     mainroad |-> SelectDefault(YesNoOptions, YesNoIndex),
     guestroom |-> SelectDefault(YesNoOptions, YesNoIndex),
     basement |-> SelectDefault(YesNoOptions, YesNoIndex),
     hotwaterheating |-> SelectDefault(YesNoOptions, YesNoIndex),
     airconditioning |-> SelectDefault(YesNoOptions, YesNoIndex),
     parking |-> SelectDefault(ParkingOptions, ParkingIndex),
     prefarea |-> SelectDefault(YesNoOptions, YesNoIndex),
     furnishingstatus |-> SelectDefault(FurnishingOptions, FurnishingIndex)]

(***************************************************************************)
(* The feature encoding, as each page writes it.                           *)
(***************************************************************************)
\* 1 if x == "Yes" else 0
YesNoVal(x) == IF x = "Yes" THEN 1 ELSE 0

furnishing_map ==
    ("unfurnished" :> 0) @@ ("semi-furnished" :> 1) @@ ("furnished" :> 2)

AppEncode_Swapped(f) ==
    <<f.area, f.bedrooms, f.bathrooms, f.stories, YesNoVal(f.mainroad),
      YesNoVal(f.guestroom), YesNoVal(f.basement), YesNoVal(f.hotwaterheating),
      YesNoVal(f.airconditioning), YesNoVal(f.prefarea), f.parking,
      furnishing_map[f.furnishingstatus]>>

AppEncode_OneBased(f) ==
    <<f.area, f.bedrooms, f.bathrooms, f.stories, YesNoVal(f.mainroad),
      YesNoVal(f.guestroom), YesNoVal(f.basement), YesNoVal(f.hotwaterheating),
      YesNoVal(f.airconditioning), f.parking, YesNoVal(f.prefarea),
      furnishing_map[f.furnishingstatus] + 1>>

\* a vector kept in a module-level list that grows across script runs
AppEncode_Stateful(f) ==
    <<f.area, f.bedrooms, f.bathrooms, f.stories, YesNoVal(f.mainroad),
      YesNoVal(f.guestroom), YesNoVal(f.basement), YesNoVal(f.hotwaterheating),
      YesNoVal(f.airconditioning), f.parking, YesNoVal(f.prefarea),
      furnishing_map[f.furnishingstatus]>> \o [i \in 1..Cardinality(hist) |-> 0]

\* app.py: input_features
AppEncode(f) ==
    <<f.area, f.bedrooms, f.bathrooms, f.stories, YesNoVal(f.mainroad),
      YesNoVal(f.guestroom), YesNoVal(f.basement), YesNoVal(f.hotwaterheating),
      YesNoVal(f.airconditioning), f.parking, YesNoVal(f.prefarea),
      furnishing_map[f.furnishingstatus]>>

\* test.py: input_features
TestEncode(f) ==
    <<f.area, f.bedrooms, f.bathrooms, f.stories, YesNoVal(f.mainroad),
      YesNoVal(f.guestroom), YesNoVal(f.basement), YesNoVal(f.hotwaterheating),
      YesNoVal(f.airconditioning), f.parking, YesNoVal(f.prefarea),
      furnishing_map[f.furnishingstatus]>>

(***************************************************************************)
(* Python values, the artifact and the model object.                       *)
(***************************************************************************)
NoneVal == [t |-> "None", id |-> 0]
Obj(n) == [t |-> "obj", id |-> n]

\* what Housing.pkl can be: missing, not unpicklable, a stub regressor whose
\* predict returns one fixed value per row, or a regressor fitted on one more
\* column than the pages supply
Files == {"absent", "corrupt", "stub", "regressor13"}

\* the stub's fixed prediction, in cents
StubValue == 4766250 * 100 + 12

\* n_features_in_ of the regressor fitted on one column too many
RegressorWidth == 12 + 1

\* joblib.load('Housing.pkl')
JoblibLoad(f) ==
    CASE f = "absent" -> [raised |-> "FileNotFoundError", content |-> "none"]
      [] f = "corrupt" -> [raised |-> "UnpicklingError", content |-> "none"]
      [] OTHER -> [raised |-> "none", content |-> f]

\* estimator.predict(X): one value per row, or ValueError on a row of the
\* wrong width
ModelPredict(content, X) ==
    CASE content = "stub" ->
            [raised |-> "none", value |-> [i \in DOMAIN X |-> StubValue]]
      [] OTHER ->
            IF \A i \in DOMAIN X : Len(X[i]) = RegressorWidth
            THEN [raised |-> "none", value |-> [i \in DOMAIN X |-> 0]]
            ELSE [raised |-> "ValueError", value |-> <<>>]

RECURSIVE Groups(_)
\* the thousands groups of n >= 0, most significant first
Groups(n) == IF n < 1000 THEN <<n>> ELSE Append(Groups(n \div 1000), n % 1000)

\* f"${prediction:,.2f}" for a prediction of c cents
FormatCurrency(c) ==
    LET a == IF c < 0 THEN -c ELSE c
    IN [neg |-> c < 0, groups |-> Groups(a \div 100), cents |-> a % 100]

NoPrice == [neg |-> FALSE, groups |-> <<>>, cents |-> 0]

\* what the page displays
ResultBox(c) == [kind |-> "result", msg |-> "Predicted House Price",
                 price |-> FormatCurrency(c)]
PredictError(e) == [kind |-> "error", msg |-> e, price |-> NoPrice]
LoadError == [kind |-> "error", msg |-> "Model file 'Housing.pkl' not found.",
              price |-> NoPrice]
Traceback(e) == [kind |-> "exception", msg |-> e, price |-> NoPrice]
Footer == [kind |-> "footer", msg |-> "", price |-> NoPrice]

(***************************************************************************)
(* load_model(): the function under @st.cache_resource.                    *)
(***************************************************************************)
\* except FileNotFoundError
LoadModelHandles(e) == e = "FileNotFoundError"

\* the body of load_model(): what it returns, displays, or lets escape
LoadModelBody(f) ==
    LET r == JoblibLoad(f)
    IN IF r.raised = "none"
       THEN [ret |-> "model", content |-> r.content, shown |-> <<>>,
             raised |-> "none"]
       ELSE IF LoadModelHandles(r.raised)
       THEN [ret |-> "None", content |-> "none", shown |-> <<LoadError>>,
             raised |-> "none"]
       ELSE [ret |-> "raise", content |-> "none", shown |-> <<>>,
             raised |-> r.raised]

CacheStores_NotNone(ret) == ret = "model"

\* st.cache_resource keeps whatever the function returns, None included; a
\* call that raises leaves no entry
CacheStores(ret) == ret \in {"model", "None"}

MustCompute_NoRecheck == TRUE

\* st.cache_resource, having taken the entry's lock after a miss, looks the
\* entry up again and computes only when it is still missing
MustCompute == ~cache.set

(***************************************************************************)
(* The rest of main(), from the widgets to the end of the script.          *)
(***************************************************************************)
EmptyOut == [calls |-> 0, arg |-> <<>>, vec |-> <<>>, exc |-> "none",
             shown |-> <<>>, completed |-> FALSE]

\* the vector passed as it is, not wrapped into a one-row batch
PredictStatement_Flat(m, h, v) ==
    IF m = NoneVal
    THEN [raised |-> "AttributeError", value |-> 0, calls |-> 0, arg |-> <<>>]
    ELSE LET r == ModelPredict(h[m.id], [i \in DOMAIN v |-> <<v[i]>>])
         IN [raised |-> r.raised,
             value |-> IF r.raised = "none" THEN r.value[1] ELSE 0,
             calls |-> 1, arg |-> v]

\* model.predict([input_features])[0]
PredictStatement(m, h, v) ==
    IF m = NoneVal
    THEN [raised |-> "AttributeError", value |-> 0, calls |-> 0, arg |-> <<>>]
    ELSE LET r == ModelPredict(h[m.id], <<v>>)
         IN [raised |-> r.raised,
             value |-> IF r.raised = "none" THEN r.value[1] ELSE 0,
             calls |-> 1, arg |-> <<v>>]

AppExceptCatches_Narrow(e) == e = "AttributeError"

\* app.py: except Exception as e
AppExceptCatches(e) == e \in {"AttributeError", "ValueError"}

\* test.py: except Exception as e
TestExceptCatches(e) == e \in {"AttributeError", "ValueError"}

\* app.py, from the widgets on
AppBody(m, h, f, pressed) ==
    LET v == AppEncode(f)
        p == PredictStatement(m, h, v)
    IN IF ~pressed
       THEN [calls |-> 0, arg |-> <<>>, vec |-> v, exc |-> "none",
             shown |-> <<Footer>>, completed |-> TRUE]
       ELSE IF p.raised = "none"
       THEN [calls |-> p.calls, arg |-> p.arg, vec |-> v, exc |-> "none",
             shown |-> <<ResultBox(p.value), Footer>>, completed |-> TRUE]
       ELSE IF AppExceptCatches(p.raised)
       THEN [calls |-> p.calls, arg |-> p.arg, vec |-> v, exc |-> p.raised,
             shown |-> <<PredictError(p.raised), Footer>>, completed |-> TRUE]
       ELSE [calls |-> p.calls, arg |-> p.arg, vec |-> v, exc |-> p.raised,
             shown |-> <<Traceback(p.raised)>>, completed |-> FALSE]

TestBody_NoButtonGuard(m, h, f, pressed) ==
    LET v == TestEncode(f)
        p == PredictStatement(m, h, v)
    IN IF p.raised = "none"
       THEN [calls |-> p.calls, arg |-> p.arg, vec |-> v, exc |-> "none",
             shown |-> IF pressed THEN <<ResultBox(p.value)>> ELSE <<>>,
             completed |-> TRUE]
       ELSE [calls |-> p.calls, arg |-> p.arg, vec |-> v, exc |-> p.raised,
             shown |-> IF pressed THEN <<PredictError(p.raised)>> ELSE <<>>,
             completed |-> TRUE]

\* test.py, from the widgets on
TestBody(m, h, f, pressed) ==
    IF ~pressed
    THEN [calls |-> 0, arg |-> <<>>, vec |-> <<>>, exc |-> "none",
          shown |-> <<>>, completed |-> TRUE]
    ELSE LET v == TestEncode(f)
             p == PredictStatement(m, h, v)
         IN IF p.raised = "none"
            THEN [calls |-> p.calls, arg |-> p.arg, vec |-> v, exc |-> "none",
                  shown |-> <<ResultBox(p.value)>>, completed |-> TRUE]
            ELSE IF TestExceptCatches(p.raised)
            THEN [calls |-> p.calls, arg |-> p.arg, vec |-> v,
                  exc |-> p.raised, shown |-> <<PredictError(p.raised)>>,
                  completed |-> TRUE]
            ELSE [calls |-> p.calls, arg |-> p.arg, vec |-> v,
                  exc |-> p.raised, shown |-> <<Traceback(p.raised)>>,
                  completed |-> FALSE]

PageBody(pg, m, h, f, pressed) ==
    IF pg = "app" THEN AppBody(m, h, f, pressed) ELSE TestBody(m, h, f, pressed)

(***************************************************************************)
(* The process: sessions running main() against one shared cache entry.    *)
(***************************************************************************)
MinHouse ==
    [area |-> AreaMin, bedrooms |-> Head(BedroomOptions),
     bathrooms |-> Head(BathroomOptions), stories |-> Head(StoriesOptions),
     mainroad |-> "No", guestroom |-> "Yes", basement |-> "No",
     hotwaterheating |-> "No", airconditioning |-> "No",
     parking |-> Head(ParkingOptions), prefarea |-> "No",
     furnishingstatus |-> "unfurnished"]

MaxHouse ==
    [area |-> AreaMax, bedrooms |-> BedroomOptions[Len(BedroomOptions)],
     bathrooms |-> BathroomOptions[Len(BathroomOptions)],
     stories |-> StoriesOptions[Len(StoriesOptions)],
     mainroad |-> "Yes", guestroom |-> "No", basement |-> "Yes",
     hotwaterheating |-> "Yes", airconditioning |-> "Yes",
     parking |-> ParkingOptions[Len(ParkingOptions)], prefarea |-> "No",
     furnishingstatus |-> "semi-furnished"]

\* the widget states the sessions submit
Inputs == {WidgetDefaults, MinHouse, MaxHouse}

NotRun == [ran |-> FALSE, r |-> EmptyOut]

NoInput == [feat |-> WidgetDefaults, pressed |-> FALSE]

MainStart(pages, files) ==
    /\ page \in pages
    /\ file \in files
    /\ cache = [set |-> FALSE, value |-> NoneVal, shown |-> <<>>]
    /\ lock = 0
    /\ heap = <<>>
    /\ svc = "Unloaded"
    /\ pc = [s \in Sessions |-> "idle"]
    /\ model = [s \in Sessions |-> NoneVal]
    /\ inp = [s \in Sessions |-> NoInput]
    /\ out = [s \in Sessions |-> EmptyOut]
    /\ reqs = 0
    /\ nLoad = 0
    /\ nPredict = 0
    /\ notFoundSeen = FALSE
    /\ hist = {}

MainInit == MainStart({"app", "test"}, Files)

EncIdle ==
    /\ encIn = WidgetDefaults
    /\ encBy = "none"
    /\ encOut = <<>>

EqIdle ==
    /\ eqIn = [model |-> "None", feat |-> WidgetDefaults, pressed |-> FALSE]
    /\ eqApp = NotRun
    /\ eqTest = NotRun

Init == MainInit /\ EncIdle /\ EqIdle

\* a browser event reruns the script: main() starts from the top
StartRequest(s) ==
    /\ pc[s] \in {"idle", "done"}
    /\ reqs < MaxRequests
    /\ reqs' = reqs + 1
    /\ pc' = [pc EXCEPT ![s] = "lookup"]
    /\ model' = [model EXCEPT ![s] = NoneVal]
    /\ inp' = [inp EXCEPT ![s] = NoInput]
    /\ out' = [out EXCEPT ![s] = EmptyOut]
    /\ UNCHANGED <<page, file, cache, lock, heap, svc, nLoad, nPredict,
                   notFoundSeen, hist,
                   encVars, eqVars>>

\* model = load_model() returns the cached value and replays what the
\* function displayed when it ran
CacheHit(s) ==
    /\ model' = [model EXCEPT ![s] = cache.value]
    /\ out' = [out EXCEPT ![s].shown = cache.shown]
    /\ pc' = [pc EXCEPT ![s] = "widgets"]

\* model = load_model(): the first look at the cache, without the lock
CacheLookup(s) ==
    /\ pc[s] = "lookup"
    /\ IF cache.set
       THEN CacheHit(s)
       ELSE /\ pc' = [pc EXCEPT ![s] = "wait"]
            /\ UNCHANGED <<model, out>>
    /\ UNCHANGED <<page, file, cache, lock, heap, svc, inp, reqs, nLoad,
                   nPredict, notFoundSeen, hist,
                   encVars, eqVars>>

\* after a miss: take the entry's lock, then compute or use what another
\* session has stored meanwhile
AcquireLock(s) ==
    /\ pc[s] = "wait"
    /\ lock = 0
    /\ IF MustCompute
       THEN /\ lock' = s
            /\ svc' = "Loading"
            /\ pc' = [pc EXCEPT ![s] = "compute"]
            /\ UNCHANGED <<model, out>>
       ELSE /\ CacheHit(s)
            /\ UNCHANGED <<lock, svc>>
    /\ UNCHANGED <<page, file, cache, heap, inp, reqs, nLoad, nPredict,
                   notFoundSeen, hist,
                   encVars, eqVars>>

\* the body of load_model() runs under the lock; its return value is stored
\* and the lock released, or its exception ends this run of the script
LoadModel(s) ==
    /\ pc[s] = "compute"
    /\ lock = s
    /\ lock' = 0
    /\ nLoad' = nLoad + 1
    /\ LET r == LoadModelBody(file)
           v == IF r.ret = "model" THEN Obj(Len(heap) + 1) ELSE NoneVal
       IN /\ heap' = IF r.ret = "model" THEN Append(heap, r.content) ELSE heap
          /\ cache' = IF CacheStores(r.ret)
                      THEN [set |-> TRUE, value |-> v, shown |-> r.shown]
                      ELSE cache
          /\ svc' = IF r.ret = "model" THEN "Ready" ELSE "Failed"
          /\ notFoundSeen' = (notFoundSeen \/ r.ret = "None")
          /\ IF r.ret = "raise"
             THEN /\ pc' = [pc EXCEPT ![s] = "done"]
                  /\ out' = [out EXCEPT ![s].shown = <<Traceback(r.raised)>>,
                                        ![s].exc = r.raised]
                  /\ UNCHANGED model
             ELSE /\ pc' = [pc EXCEPT ![s] = "widgets"]
                  /\ out' = [out EXCEPT ![s].shown = r.shown]
                  /\ model' = [model EXCEPT ![s] = v]
    /\ UNCHANGED <<page, file, inp, reqs, nPredict, hist,
                   encVars, eqVars>>

\* the widgets are read and the rest of main() runs
RenderPage(s) ==
    /\ pc[s] = "widgets"
    /\ \E f \in Inputs, b \in BOOLEAN :
          LET r == PageBody(page, model[s], heap, f, b)
          IN /\ inp' = [inp EXCEPT ![s] = [feat |-> f, pressed |-> b]]
             /\ out' = [out EXCEPT ![s] =
                           [r EXCEPT !.shown = out[s].shown \o r.shown]]
             /\ nPredict' = nPredict + r.calls
             /\ hist' = IF r.vec = <<>> THEN hist ELSE hist \cup {<<f, r.vec>>}
    /\ pc' = [pc EXCEPT ![s] = "done"]
    /\ UNCHANGED <<page, file, cache, lock, heap, svc, model, reqs, nLoad,
                   notFoundSeen,
                   encVars, eqVars>>

\* Housing.pkl is replaced, removed or damaged on disk
ChangeFile ==
    /\ \E f \in Files \ {file} : file' = f
    /\ UNCHANGED <<page, cache, lock, heap, svc, pc, model, inp, out, reqs,
                   nLoad, nPredict, notFoundSeen, hist,
                   encVars, eqVars>>

Next ==
    \/ \E s \in Sessions : StartRequest(s)
    \/ \E s \in Sessions : CacheLookup(s)
    \/ \E s \in Sessions : AcquireLock(s)
    \/ \E s \in Sessions : LoadModel(s)
    \/ \E s \in Sessions : RenderPage(s)
    \/ ChangeFile

Spec == Init /\ [][Next]_vars

(***************************************************************************)
(* The encoders alone, on every combination of widget values.              *)
(***************************************************************************)
EncInit ==
    /\ MainStart({"app"}, {"stub"})
    /\ EqIdle
    /\ encIn \in HouseFeatures(Areas)
    /\ encBy = "none"
    /\ encOut = <<>>

EncodeApp ==
    /\ encBy = "none"
    /\ encBy' = "app"
    /\ encOut' = AppEncode(encIn)
    /\ UNCHANGED <<encIn, mainVars, eqVars>>

EncodeTest ==
    /\ encBy = "none"
    /\ encBy' = "test"
    /\ encOut' = TestEncode(encIn)
    /\ UNCHANGED <<encIn, mainVars, eqVars>>

EncNext == EncodeApp \/ EncodeTest

SpecEncode == EncInit /\ [][EncNext]_vars

(***************************************************************************)
(* The two pages side by side on the same model, widgets and button.       *)
(***************************************************************************)
Edges(seq) == {Head(seq), seq[Len(seq)]}

EdgeHouses ==
    [area : {AreaMin, AreaMax},
     bedrooms : Edges(BedroomOptions),
     bathrooms : Edges(BathroomOptions),
     stories : Edges(StoriesOptions),
     mainroad : Range(YesNoOptions),
     guestroom : Range(YesNoOptions),
     basement : Range(YesNoOptions),
     hotwaterheating : Range(YesNoOptions),
     airconditioning : Range(YesNoOptions),
     parking : Edges(ParkingOptions),
     prefarea : Range(YesNoOptions),
     furnishingstatus : Range(FurnishingOptions)]

\* what load_model() can have handed to main()
ModelStates == {"None", "stub", "regressor13"}

EqModel == IF eqIn.model = "None" THEN NoneVal ELSE Obj(1)
EqHeap == IF eqIn.model = "None" THEN <<>> ELSE <<eqIn.model>>

EqInit ==
    /\ MainStart({"app"}, {"stub"})
    /\ EncIdle
    /\ eqIn \in [model : ModelStates,
                 feat : EdgeHouses \cup {WidgetDefaults},
                 pressed : BOOLEAN]
    /\ eqApp = NotRun
    /\ eqTest = NotRun

RunApp ==
    /\ ~eqApp.ran
    /\ eqApp' = [ran |-> TRUE,
                 r |-> AppBody(EqModel, EqHeap, eqIn.feat, eqIn.pressed)]
    /\ UNCHANGED <<eqIn, eqTest, mainVars, encVars>>

RunTest ==
    /\ ~eqTest.ran
    /\ eqTest' = [ran |-> TRUE,
                  r |-> TestBody(EqModel, EqHeap, eqIn.feat, eqIn.pressed)]
    /\ UNCHANGED <<eqIn, eqApp, mainVars, encVars>>

EqNext == RunApp \/ RunTest

SpecEquiv == EqInit /\ [][EqNext]_vars

(***************************************************************************)
(* Properties.                                                             *)
(***************************************************************************)
Kinds(r) == {r.shown[i].kind : i \in DOMAIN r.shown}
Shows(r, e) == \E i \in DOMAIN r.shown : r.shown[i] = e

\* a session whose run got a value back from load_model()
Served(s) ==
    \/ pc[s] = "widgets"
    \/ pc[s] = "done" /\ out[s].exc # "UnpicklingError"

\* C1: once load_model() has handled FileNotFoundError, no request ever
\* invokes a model's predict, whatever the file becomes and whether or not the
\* button is pressed, and the service stays Failed.
C1_Thm ==
    notFoundSeen =>
        /\ nPredict = 0
        /\ svc = "Failed"
        /\ \A s \in Sessions : Served(s) => model[s] = NoneVal

\* C1 witness: the file has appeared since the failed load, the button was
\* pressed, and the run ended with the caught AttributeError.
C1_Witness ==
    /\ notFoundSeen
    /\ file = "stub"
    /\ \E s \in Sessions :
          /\ pc[s] = "done"
          /\ inp[s].pressed
          /\ out[s].exc = "AttributeError"
          /\ out[s].calls = 0

\* C2: whenever a run ends with no model because the load failed (file
\* missing or not deserializable), the run went through the whole page, the
\* error banner is displayed and no traceback is.
C2_Claim ==
    \A s \in Sessions :
        (pc[s] = "done" /\ model[s] = NoneVal) =>
            /\ out[s].completed
            /\ Shows(out[s], LoadError)
            /\ "exception" \notin Kinds(out[s])

\* C4: a run in which the predict statement raised ends normally, displays
\* the error message and no result, and leaves the session able to run again.
C4_Thm ==
    \A s \in Sessions :
        (pc[s] = "done" /\ out[s].exc \in {"AttributeError", "ValueError"}) =>
            /\ out[s].completed
            /\ Shows(out[s], PredictError(out[s].exc))
            /\ Kinds(out[s]) \cap {"result", "exception"} = {}
            /\ (reqs < MaxRequests => ENABLED StartRequest(s))

\* C4 witness: a loaded model's predict raised in an earlier run of a session
\* and a later run of the process has been served.
C4_Witness ==
    \E s, t \in Sessions :
        /\ s # t
        /\ pc[s] = "done" /\ out[s].calls = 1 /\ out[s].exc = "ValueError"
        /\ pc[t] = "done" /\ out[t].completed
        /\ reqs = MaxRequests

\* C5: the service state moves only Unloaded -> Loading -> Ready or Failed,
\* and once it is Ready or Failed it never changes and load_model()'s body
\* never runs again.
C5_Claim ==
    [][/\ svc = "Unloaded" => svc' \in {"Unloaded", "Loading"}
       /\ svc = "Loading" => svc' \in {"Loading", "Ready", "Failed"}
       /\ svc \in {"Ready", "Failed"} => (svc' = svc /\ nLoad' = nLoad)]_vars

ExampleFeatures ==
    [area |-> 7000, bedrooms |-> 4, bathrooms |-> 3, stories |-> 3,
     mainroad |-> "Yes", guestroom |-> "Yes", basement |-> "Yes",
     hotwaterheating |-> "Yes", airconditioning |-> "Yes", parking |-> 2,
     prefarea |-> "Yes", furnishingstatus |-> "furnished"]

ExampleVector == <<7000, 4, 3, 3, 1, 1, 1, 1, 1, 2, 1, 2>>

IsExampleRun(s) ==
    /\ pc[s] = "done"
    /\ inp[s] = [feat |-> ExampleFeatures, pressed |-> TRUE]
    /\ model[s] # NoneVal
    /\ heap[model[s].id] = "stub"

\* C8: with the stub model, the example request (which is the widgets'
\* default selection) passes exactly [[7000,4,3,3,1,1,1,1,1,2,1,2]] to predict
\* and displays the stub's value, $4,766,250.12, as the result.
C8_Thm ==
    /\ WidgetDefaults = ExampleFeatures
    /\ \A s \in Sessions :
          IsExampleRun(s) =>
              /\ out[s].calls = 1
              /\ out[s].arg = <<ExampleVector>>
              /\ \E i \in DOMAIN out[s].shown :
                    /\ out[s].shown[i].kind = "result"
                    /\ out[s].shown[i].price =
                         [neg |-> FALSE, groups |-> <<4, 766, 250>>,
                          cents |-> 12]
              /\ "error" \notin Kinds(out[s])

\* C8 witness: a session has finished the example request on the stub model.
C8_Witness == \E s \in Sessions : IsExampleRun(s)

FlagAt(v, i, x) == (v[i] # 0) <=> (x = "Yes")

\* C3: for every valid HouseFeatures the vector has exactly 12 elements in the
\* order area, bedrooms, bathrooms, stories, mainroad, guestroom, basement,
\* hotwaterheating, airconditioning, parking, prefarea, furnishingstatus, with
\* the numeric fields unchanged.
C3_Thm ==
    encBy # "none" =>
        /\ Len(encOut) = 12
        /\ encOut[1] = encIn.area
        /\ encOut[2] = encIn.bedrooms
        /\ encOut[3] = encIn.bathrooms
        /\ encOut[4] = encIn.stories
        /\ FlagAt(encOut, 5, encIn.mainroad)
        /\ FlagAt(encOut, 6, encIn.guestroom)
        /\ FlagAt(encOut, 7, encIn.basement)
        /\ FlagAt(encOut, 8, encIn.hotwaterheating)
        /\ FlagAt(encOut, 9, encIn.airconditioning)
        /\ encOut[10] = encIn.parking
        /\ FlagAt(encOut, 11, encIn.prefarea)
        /\ (encOut[12] = 0) <=> (encIn.furnishingstatus = "unfurnished")
        /\ (encOut[12] = 2) <=> (encIn.furnishingstatus = "furnished")

\* C3 witness: the upper edge of the area domain has been encoded with flags
\* that differ from their neighbours.
C3_Witness ==
    /\ encBy = "app"
    /\ encIn.area = 20000
    /\ encIn.parking = 0 /\ encIn.prefarea = "Yes"
    /\ encIn.mainroad = "No" /\ encIn.guestroom = "Yes"

\* C7: each of the six flag positions holds 1 for Yes and 0 for No, and the
\* last position holds 0, 1, 2 for unfurnished, semi-furnished, furnished.
C7_Thm ==
    encBy # "none" =>
        /\ \A i \in {5, 6, 7, 8, 9, 11} : encOut[i] \in {0, 1}
        /\ <<encOut[5], encOut[6], encOut[7], encOut[8], encOut[9],
             encOut[11]>> =
           [i \in 1..6 |->
               IF <<encIn.mainroad, encIn.guestroom, encIn.basement,
                    encIn.hotwaterheating, encIn.airconditioning,
                    encIn.prefarea>>[i] = "Yes" THEN 1 ELSE 0]
        /\ encOut[12] \in {0, 1, 2}
        /\ encOut[12] =
             CASE encIn.furnishingstatus = "unfurnished" -> 0
               [] encIn.furnishingstatus = "semi-furnished" -> 1
               [] encIn.furnishingstatus = "furnished" -> 2

\* C7 witness: test.py's encoding of a semi-furnished house with mixed flags.
C7_Witness ==
    /\ encBy = "test"
    /\ encIn.furnishingstatus = "semi-furnished"
    /\ encIn.basement = "Yes" /\ encIn.hotwaterheating = "No"

\* what a run did that a user or the model can observe, the footer aside
Outcome(r) == SelectSeq(r.shown, LAMBDA e : e.kind # "footer")
Observable(r) == [calls |-> r.calls, arg |-> r.arg, outcome |-> Outcome(r)]

BothRan == eqApp.ran /\ eqTest.ran

\* C10 as stated: the two pages agree on the calls of predict, the batch and
\* the outcome, and predict is invoked once if the button is pressed and never
\* otherwise.
C10_Claim ==
    BothRan =>
        /\ Observable(eqApp.r) = Observable(eqTest.r)
        /\ eqApp.r.calls = IF eqIn.pressed THEN 1 ELSE 0

\* C10 amended: the two pages agree on the calls of predict, the batch and
\* the outcome; predict is invoked once, with the 12-element vector, if the
\* button is pressed and a model is loaded, and never otherwise; app.py builds
\* the vector in every run and test.py only when the button is pressed.
C10_Thm ==
    BothRan =>
        /\ Observable(eqApp.r) = Observable(eqTest.r)
        /\ eqApp.r.calls = IF eqIn.pressed /\ eqIn.model # "None" THEN 1 ELSE 0
        /\ eqApp.r.calls = 1 =>
              (eqApp.r.arg = <<eqApp.r.vec>> /\ Len(eqApp.r.vec) = 12)
        /\ Len(Outcome(eqApp.r)) = IF eqIn.pressed THEN 1 ELSE 0
        /\ eqApp.r.vec # <<>>
        /\ (eqTest.r.vec # <<>>) <=> eqIn.pressed

\* C10 witness: both pages ran on a pressed button with a loaded model that
\* rejects the vector.
C10_Witness ==
    /\ BothRan
    /\ eqIn.pressed
    /\ eqIn.model = "regressor13"
    /\ eqApp.r.exc = "ValueError"

====
